---- MODULE Spec2Model ----
(***************************************************************************)
(* Model of scripts/shorten-imports.js: the alias resolver, the per-file   *)
(* import rewrite (pass 1), the stable replacement map and the reference    *)
(* propagation (pass 2), and the main loop that drives both passes.         *)
(*                                                                          *)
(* Strings are sequences of one-character strings, so length, startsWith,  *)
(* slice and the extension regexes are computed as the code computes them.  *)
(* Two file names that the code only ever appends or tests as a whole       *)
(* ("tsconfig.json", "node_modules") are single atoms of a path.            *)
(***************************************************************************)
EXTENDS Integers, Sequences, FiniteSets, TLC

\* null where a string is expected, and null where an object is expected
None == <<"<none>">>
NullInfo == [null |-> TRUE]

\* ------------------------------------------------------------------------
\* String primitives (String.prototype.*)
\* ------------------------------------------------------------------------

StartsWith(s, p) ==
    /\ Len(p) <= Len(s)
    /\ SubSeq(s, 1, Len(p)) = p

EndsWith(s, p) ==
    /\ Len(p) <= Len(s)
    /\ SubSeq(s, Len(s) - Len(p) + 1, Len(s)) = p

\* s.slice(n) for 0 <= n
SliceFrom(s, n) == SubSeq(s, n + 1, Len(s))

\* s.slice(0, -n) for n > 0
DropLast(s, n) == SubSeq(s, 1, Len(s) - n)

\* s.indexOf(c), 0-based, -1 when absent
IndexOf(s, c) ==
    IF \E i \in 1..Len(s) : s[i] = c
    THEN (CHOOSE i \in 1..Len(s) : s[i] = c /\ \A j \in 1..(i - 1) : s[j] # c) - 1
    ELSE -1

\* s.split("/")
Split(s) ==
    LET RECURSIVE go(_, _, _)
        go(i, cur, acc) ==
            IF i > Len(s) THEN Append(acc, cur)
            ELSE IF s[i] = "/" THEN go(i + 1, <<>>, Append(acc, cur))
            ELSE go(i + 1, Append(cur, s[i]), acc)
    IN go(1, <<>>, <<>>)

\* parts.join("/")
Join(parts) ==
    LET RECURSIVE go(_)
        go(i) ==
            IF i > Len(parts) THEN <<>>
            ELSE IF i = Len(parts) THEN parts[i]
            ELSE parts[i] \o <<"/">> \o go(i + 1)
    IN go(1)

\* ------------------------------------------------------------------------
\* Small helpers of the script
\* ------------------------------------------------------------------------

SUPPORTED_EXTS ==
    << <<".", "t", "s">>, <<".", "t", "s", "x">>,
       <<".", "j", "s">>, <<".", "j", "s", "x">> >>

toPosix(p) == Join(Split(p))

\* /\.(tsx?|jsx?)$/.test(spec)
hasImportExt(spec) ==
    \E i \in 1..Len(SUPPORTED_EXTS) : EndsWith(spec, SUPPORTED_EXTS[i])

\* p.replace(/\.(tsx?|jsx?)$/, "")
stripExt(p) ==
    IF hasImportExt(p)
    THEN LET i == CHOOSE k \in 1..Len(SUPPORTED_EXTS) : EndsWith(p, SUPPORTED_EXTS[k])
         IN DropLast(p, Len(SUPPORTED_EXTS[i]))
    ELSE p

isRelative(spec) == StartsWith(spec, <<".">>)

\* ------------------------------------------------------------------------
\* node:path (posix)
\* ------------------------------------------------------------------------

\* resolution of ".", ".." and empty segments of an absolute path
NormSegs(segs) ==
    LET RECURSIVE go(_, _)
        go(i, acc) ==
            IF i > Len(segs) THEN acc
            ELSE IF segs[i] = <<>> \/ segs[i] = <<".">> THEN go(i + 1, acc)
            ELSE IF segs[i] = <<".", ".">>
                 THEN go(i + 1, IF acc = <<>> THEN acc ELSE SubSeq(acc, 1, Len(acc) - 1))
            ELSE go(i + 1, Append(acc, segs[i]))
    IN go(1, <<>>)

AbsSegs(p) == NormSegs(Split(p))

FromSegs(segs) == <<"/">> \o Join(segs)

isAbsolute(p) == StartsWith(p, <<"/">>)

\* path.resolve(base, rel), base absolute
PathResolve(base, rel) ==
    IF isAbsolute(rel) THEN FromSegs(AbsSegs(rel))
    ELSE FromSegs(AbsSegs(base \o <<"/">> \o rel))

\* path.join(base, name), base absolute
PathJoin(base, name) == FromSegs(AbsSegs(base \o <<"/">> \o name))

\* the segments of a path without the last one
ParentSegs(segs) == IF segs = <<>> THEN <<>> ELSE SubSeq(segs, 1, Len(segs) - 1)

\* path.dirname(p), p absolute and normalized
Dirname(p) == FromSegs(ParentSegs(AbsSegs(p)))

\* the first k segments of f and t are the same
SamePrefix(f, t, k) == k <= Len(f) /\ k <= Len(t) /\ SubSeq(f, 1, k) = SubSeq(t, 1, k)

\* the number of leading segments two paths share
CommonLen(f, t) == CHOOSE k \in 0..Len(f) : SamePrefix(f, t, k) /\ ~SamePrefix(f, t, k + 1)

\* one ".." for each segment of f below the shared part, then the rest of t
RelativeSegs(f, t) ==
    [i \in 1..(Len(f) - CommonLen(f, t)) |-> <<".", ".">>]
      \o SubSeq(t, CommonLen(f, t) + 1, Len(t))

\* path.relative(from, to), both absolute
PathRelative(from, to) == Join(RelativeSegs(AbsSegs(from), AbsSegs(to)))

\* the positions of "." in a file name
DotsOf(base) == {i \in 1..Len(base) : base[i] = "."}

\* from the last "." of the file name, unless there is none or it comes first
ExtOfBase(base) ==
    IF DotsOf(base) = {} THEN <<>>
    ELSE IF (CHOOSE i \in DotsOf(base) : \A j \in DotsOf(base) : j <= i) = 1 THEN <<>>
    ELSE SubSeq(base, CHOOSE i \in DotsOf(base) : \A j \in DotsOf(base) : j <= i, Len(base))

\* the last of the segments of a path
LastSeg(segs) == segs[Len(segs)]

\* path.extname(p)
Extname(p) == ExtOfBase(LastSeg(Split(p)))

\* ------------------------------------------------------------------------
\* The source tree: directories, files and their names
\* ------------------------------------------------------------------------

FsTop == <<"/">>
RootDir == <<"/", "r">>
SrcDir == RootDir \o <<"/", "s">>
CompDir == SrcDir \o <<"/", "c">>
NestedDir == SrcDir \o <<"/", "m">>
PagesDir == SrcDir \o <<"/", "p">>
DeepDir == PagesDir \o <<"/", "q">>

\* the module every specifier of the model is about: <root>/s/c/h.ts
ModuleFile == CompDir \o <<"/", "h", ".", "t", "s">>

\* the files with a supported extension under the root, in the order walk()
\* yields them: the entries of a directory by name, a directory walked where
\* its name stands (s/c/h.ts, s/m/g.ts, s/p/q/f.ts, s/t.ts); node_modules is
\* not entered
SourceFiles ==
    << ModuleFile,
       NestedDir \o <<"/", "g", ".", "t", "s">>,
       DeepDir \o <<"/", "f", ".", "t", "s">>,
       SrcDir \o <<"/", "t", ".", "t", "s">> >>

NumFiles == Len(SourceFiles)

TsconfigName == <<"tsconfig.json">>
NodeModulesName == <<"node_modules">>

\* the one installable dependency: <root>/s/p/node_modules/c
InstalledPackage == PagesDir \o <<"/">> \o NodeModulesName \o <<"/", "c">>

Directories == {FsTop, RootDir, SrcDir, CompDir, NestedDir, PagesDir, DeepDir}

VARIABLES
    args,            \* parseArgs: [write, updateRefs]
    tsconfigs,       \* directory -> parsed tsconfig.json [baseUrl, paths] (the files on disk)
    packages,        \* the paths that exist under some node_modules
    disk,            \* source file path -> the text of the file
    original,        \* disk as it was before the run
    tsconfigCache,   \* tsconfig path -> what buildAliasMatchers returned
    built,           \* tsconfig path -> number of buildAliasMatchers calls
    nodeModuleConflictCache,
    updatedPathMap,  \* old specifier -> set of new specifiers
    stableMap,       \* old specifier -> its single new specifier
    conflicts,       \* the ambiguous old specifiers
    pc, cursor,      \* main()'s position: the pass and the next file
    filesScanned, filesChanged, postProcessedFilesChanged,
    scanLog,         \* file index -> what updateImportsInFile returned for it
    postLog,         \* file index -> what updatePathReferencesInFile returned for it
    written,         \* the (pass, file) pairs for which writeFileSync was called
    summary          \* the counts printed at the end of main()

vars == <<args, tsconfigs, packages, disk, original, tsconfigCache, built,
          nodeModuleConflictCache, updatedPathMap, stableMap, conflicts, pc, cursor,
          filesScanned, filesChanged, postProcessedFilesChanged, scanLog, postLog,
          written, summary>>

\* fs.existsSync
existsSync(p) ==
    \/ p \in Directories
    \/ p = ModuleFile
    \/ \E i \in 1..NumFiles : p = SourceFiles[i]
    \/ (EndsWith(p, TsconfigName) /\ Dirname(p) \in DOMAIN tsconfigs)
    \/ p \in packages

\* ------------------------------------------------------------------------
\* Configuration lookup and matcher construction
\* ------------------------------------------------------------------------

\* a search that does not stop at the root
nearestUnbounded(startDir, root) ==
    LET RECURSIVE walkUp(_)
        walkUp(current) ==
            IF existsSync(PathJoin(current, TsconfigName))
            THEN PathJoin(current, TsconfigName)
            ELSE IF Dirname(current) = current THEN None
            ELSE walkUp(Dirname(current))
    IN walkUp(startDir)

\* lines 76-86: the loop of findNearestTsconfig, root = path.resolve(rootDir)
nearestFrom(startDir, root) ==
    LET RECURSIVE walkUp(_)
        walkUp(current) ==
            IF existsSync(PathJoin(current, TsconfigName))
            THEN PathJoin(current, TsconfigName)
            ELSE IF current = root THEN None
            ELSE IF Dirname(current) = current THEN None
            ELSE walkUp(Dirname(current))
    IN walkUp(startDir)

findNearestTsconfig(startDir, rootDir) ==
    nearestFrom(startDir, PathResolve(rootDir, <<>>))

parseStarPattern(pattern) ==
    IF IndexOf(pattern, "*") = -1
    THEN [prefix |-> pattern, suffix |-> <<>>, hasStar |-> FALSE]
    ELSE [prefix |-> SubSeq(pattern, 1, IndexOf(pattern, "*")),
          suffix |-> SliceFrom(pattern, IndexOf(pattern, "*") + 1),
          hasStar |-> TRUE]

\* loadTsconfig: the directory of the file and its compilerOptions
loadTsconfig(tsconfigPath) ==
    [basePath |-> Dirname(tsconfigPath), options |-> tsconfigs[Dirname(tsconfigPath)]]

\* lines 133-144: the matcher of a parsed alias pattern and a parsed target pattern
matcherOf(alias, target, baseUrl) ==
    [aliasPrefix |-> alias.prefix,
     aliasSuffix |-> alias.suffix,
     targetPrefixAbs |-> PathResolve(baseUrl, target.prefix),
     targetSuffix |-> target.suffix,
     hasStar |-> alias.hasStar]

\* the matchers of one (aliasPattern, targetPatterns) entry
EntryMatchers(entry, baseUrl) ==
    [k \in 1..Len(entry.targets) |->
        matcherOf(parseStarPattern(entry.alias), parseStarPattern(entry.targets[k]),
                  baseUrl)]

\* lines 126-146: the matchers of all entries, in the order of declaration
collectMatchers(paths, baseUrl) ==
    LET RECURSIVE collect(_)
        collect(i) ==
            IF i > Len(paths) THEN <<>>
            ELSE EntryMatchers(paths[i], baseUrl) \o collect(i + 1)
    IN collect(1)

\* lines 117-119: options.baseUrl resolved, or the root
baseUrlOf(cfg, rootDir) ==
    IF cfg.options.baseUrl # None
    THEN PathResolve(cfg.basePath, cfg.options.baseUrl)
    ELSE PathResolve(rootDir, <<>>)

\* lines 120-148: null without paths, else the base and the matchers
aliasInfoOf(paths, baseUrl) ==
    IF Len(paths) = 0 THEN NullInfo
    ELSE [baseUrl |-> baseUrl, matchers |-> collectMatchers(paths, baseUrl)]

\* lines 116-148: buildAliasMatchers for a loaded configuration
matchersOfConfig(cfg, rootDir) == aliasInfoOf(cfg.options.paths, baseUrlOf(cfg, rootDir))

buildAliasMatchers(tsconfigPath, rootDir) ==
    matchersOfConfig(loadTsconfig(tsconfigPath), rootDir)

\* lines 163-164: what is said of the relative path
staysInside(rel) ==
    IF rel = <<>> THEN TRUE
    ELSE ~StartsWith(rel, <<".", ".">>) /\ ~isAbsolute(rel)

isWithinRoot(rootDir, targetAbs) == staysInside(PathRelative(rootDir, targetAbs))

\* the least element of a set of positions
First(S) == CHOOSE i \in S : \A j \in S : i <= j

\* lines 174-177: the extensions that make targetAbs an existing file
extHits(targetAbs) ==
    {i \in 1..Len(SUPPORTED_EXTS) : existsSync(targetAbs \o SUPPORTED_EXTS[i])}

\* line 180: path.join(targetAbs, "index" + ext)
indexFile(targetAbs, i) ==
    PathJoin(targetAbs, <<"i", "n", "d", "e", "x">> \o SUPPORTED_EXTS[i])

\* lines 179-182: the extensions whose index file exists under targetAbs
indexHits(targetAbs) ==
    {i \in 1..Len(SUPPORTED_EXTS) : existsSync(indexFile(targetAbs, i))}

resolveExistingModulePath(targetAbs) ==
    IF existsSync(targetAbs) THEN targetAbs
    ELSE IF Extname(targetAbs) # <<>> THEN None
    ELSE IF extHits(targetAbs) # {}
    THEN targetAbs \o SUPPORTED_EXTS[First(extHits(targetAbs))]
    ELSE IF indexHits(targetAbs) # {} THEN indexFile(targetAbs, First(indexHits(targetAbs)))
    ELSE None

\* lines 189-194: the package name, from the segments of the specifier
packageNameOf(spec, parts) ==
    IF StartsWith(spec, <<"@">>)
    THEN IF Len(parts) < 2 THEN None
         ELSE parts[1] \o <<"/">> \o parts[2]
    ELSE IF parts[1] = <<>> THEN None ELSE parts[1]

getPackageNameFromSpecifier(spec) ==
    IF spec = <<>> THEN None ELSE packageNameOf(spec, Split(spec))

\* lines 206-216: the loop of hasNodeModulesPackage, root = path.resolve(rootDir)
searchFrom(packageName, startDir, root) ==
    LET RECURSIVE walkUp(_)
        walkUp(current) ==
            IF existsSync(PathJoin(current, NodeModulesName \o <<"/">> \o packageName))
            THEN TRUE
            ELSE IF current = root THEN FALSE
            ELSE IF Dirname(current) = current THEN FALSE
            ELSE walkUp(Dirname(current))
    IN walkUp(startDir)

\* the upward search of hasNodeModulesPackage, without its cache
searchNodeModules(packageName, startDir, rootDir) ==
    searchFrom(packageName, startDir, PathResolve(rootDir, <<>>))

\* lines 218-219: cache.set(cacheKey, found); return found
foundAndCached(cache, cacheKey, found) ==
    [found |-> found,
     cache |-> [k \in DOMAIN cache \cup {cacheKey} |->
                  IF k = cacheKey THEN found ELSE cache[k]]]

\* [found, cache']
hasNodeModulesPackage(packageName, startDir, rootDir, cache) ==
    IF <<startDir, packageName>> \in DOMAIN cache
    THEN [found |-> cache[<<startDir, packageName>>], cache |-> cache]
    ELSE foundAndCached(cache, <<startDir, packageName>>,
                        searchNodeModules(packageName, startDir, rootDir))

\* ------------------------------------------------------------------------
\* Candidate ordering: candidates.sort((a, b) => a.length - b.length ||
\* a.localeCompare(b)), and the alias resolvers
\* ------------------------------------------------------------------------

\* The characters of the model in the order of the root collation that
\* String.prototype.localeCompare uses (punctuation, then symbols, then digits,
\* then letters); all differences between these characters are primary ones,
\* so the comparison of two strings is decided at their first difference.
CollationOrder ==
    <<".", "@", "*", "/", "~", "2", "a", "c", "d", "e", "f", "g", "h", "i", "j",
      "m", "n", "p", "q", "r", "s", "t", "x">>

CharRank(c) == CHOOSE i \in 1..Len(CollationOrder) : CollationOrder[i] = c

\* a.localeCompare(b): negative, zero or positive
localeCompare(a, b) ==
    LET RECURSIVE go(_)
        go(i) ==
            IF i > Len(a) /\ i > Len(b) THEN 0
            ELSE IF i > Len(a) THEN -1
            ELSE IF i > Len(b) THEN 1
            ELSE IF a[i] = b[i] THEN go(i + 1)
            ELSE IF CharRank(a[i]) < CharRank(b[i]) THEN -1 ELSE 1
    IN go(1)

\* a comparator that has lost its tie-break
compareByLengthOnly(a, b) == Len(a) - Len(b)

\* the comparator handed to sort
compareCandidates(a, b) ==
    IF Len(a) - Len(b) # 0 THEN Len(a) - Len(b) ELSE localeCompare(a, b)

\* Array.prototype.sort with that comparator (a stable sort)
sortCandidates(candidates) ==
    LET RECURSIVE insert(_, _)
        insert(sorted, x) ==
            IF sorted = <<>> THEN <<x>>
            ELSE IF compareCandidates(x, sorted[1]) < 0 THEN <<x>> \o sorted
            ELSE <<sorted[1]>> \o insert(Tail(sorted), x)
        RECURSIVE go(_, _)
        go(i, sorted) ==
            IF i > Len(candidates) THEN sorted
            ELSE go(i + 1, insert(sorted, candidates[i]))
    IN go(1, <<>>)

\* lines 241, 269, 284: keepExt ? aliasPath : stripExt(aliasPath)
finalAliasOf(aliasPath, keepExt) == IF keepExt THEN aliasPath ELSE stripExt(aliasPath)

\* line 231: targetAbs.slice(targetPrefix.length)
remainderOf(targetAbs, m) == SliceFrom(targetAbs, Len(m.targetPrefixAbs))

\* lines 229-232: the matcher applies to the target
targetMatches(targetAbs, m) ==
    /\ StartsWith(targetAbs, m.targetPrefixAbs)
    /\ ~(m.targetSuffix # <<>> /\ ~EndsWith(remainderOf(targetAbs, m), m.targetSuffix))

\* lines 234-236: the remainder without the target suffix
innerOf(remainder, m) ==
    IF m.targetSuffix # <<>> THEN DropLast(remainder, Len(m.targetSuffix)) ELSE remainder

\* line 238: .replace(/^\//, "")
stripLeadingSlash(posix) == IF StartsWith(posix, <<"/">>) THEN Tail(posix) ELSE posix

\* line 239: the alias prefix, the inner part for a wildcard alias, the alias suffix
targetAliasPath(m, innerPosix) ==
    m.aliasPrefix \o (IF m.hasStar THEN innerPosix ELSE <<>>) \o m.aliasSuffix

\* lines 231-241: the candidate a matcher that applies contributes
targetAlias(targetAbs, m, keepExt) ==
    finalAliasOf(targetAliasPath(m, stripLeadingSlash(toPosix(
                     innerOf(remainderOf(targetAbs, m), m)))),
                 keepExt)

\* the candidates of buildAliasForTarget before they are sorted
targetCandidates(targetAbs, matchers, keepExt) ==
    LET RECURSIVE go(_)
        go(i) ==
            IF i > Len(matchers) THEN <<>>
            ELSE IF targetMatches(targetAbs, matchers[i])
            THEN <<targetAlias(targetAbs, matchers[i], keepExt)>> \o go(i + 1)
            ELSE go(i + 1)
    IN go(1)

\* lines 244-248 and 289-291: null without candidates, else the first after the sort
firstSorted(candidates) ==
    IF Len(candidates) = 0 THEN None
    ELSE sortCandidates(candidates)[1]

buildAliasForTarget(targetAbs, matchers, keepExt) ==
    firstSorted(targetCandidates(targetAbs, matchers, keepExt))

\* lines 256-259: the specifier without the target suffix it ends with
innerTargetOf(spec, m) ==
    IF m.targetSuffix # <<>> /\ EndsWith(spec, m.targetSuffix)
    THEN DropLast(spec, Len(m.targetSuffix))
    ELSE spec

\* lines 260-263 and 272-275: path.resolve(m.targetPrefixAbs, ...)
unresolvedTargetOf(spec, m) ==
    IF m.hasStar
    THEN PathResolve(m.targetPrefixAbs, innerTargetOf(spec, m) \o m.targetSuffix)
    ELSE PathResolve(m.targetPrefixAbs, m.targetSuffix)

\* lines 265-266 and 277-278: the target exists, inside the root
resolvedInRoot(rootDir, resolvedTargetAbs) ==
    IF resolvedTargetAbs = None THEN FALSE
    ELSE isWithinRoot(rootDir, resolvedTargetAbs)

\* lines 264-266 and 276-281: the matcher applies to the specifier
bareMatchesAt(spec, m, baseUrl, rootDir, unresolvedTargetAbs) ==
    /\ resolvedInRoot(rootDir, resolveExistingModulePath(unresolvedTargetAbs))
    /\ m.hasStar \/ toPosix(PathRelative(baseUrl, unresolvedTargetAbs)) = spec

bareMatches(spec, m, baseUrl, rootDir) ==
    bareMatchesAt(spec, m, baseUrl, rootDir, unresolvedTargetOf(spec, m))

\* lines 268 and 283: the alias prefix, the specifier for a wildcard alias, the suffix
bareAliasPath(spec, m) ==
    IF m.hasStar
    THEN m.aliasPrefix \o spec \o m.aliasSuffix
    ELSE m.aliasPrefix \o m.aliasSuffix

\* the candidates of resolveBareAlias before they are sorted
bareCandidates(spec, matchers, baseUrl, rootDir, keepExt) ==
    LET RECURSIVE go(_)
        go(i) ==
            IF i > Len(matchers) THEN <<>>
            ELSE IF bareMatches(spec, matchers[i], baseUrl, rootDir)
            THEN <<finalAliasOf(bareAliasPath(spec, matchers[i]), keepExt)>> \o go(i + 1)
            ELSE go(i + 1)
    IN go(1)

resolveBareAlias(spec, matchers, baseUrl, rootDir, keepExt) ==
    firstSorted(bareCandidates(spec, matchers, baseUrl, rootDir, keepExt))

\* ------------------------------------------------------------------------
\* Source text and its syntax tree (ts.createSourceFile)
\*
\* A file is a sequence of statements, each one literal inside a construct:
\*     import "x";   export * from "x";   import("x");   import(<bq>x<bq>);
\*     mock("x");    mock(<bq>x<bq>);
\* where <bq> is the backtick of a template literal.
\* The text of a file is a sequence of characters in which the keywords of
\* a construct are one element each.
\* ------------------------------------------------------------------------

DQ == "\""
BQ == "<bq>"

Lead(parent) ==
    CASE parent = "ImportDeclaration" -> <<"import ">>
      [] parent = "ExportDeclaration" -> <<"export * from ">>
      [] parent = "ImportCall" -> <<"import(">>
      [] parent = "Call" -> <<"mock(">>

Trail(parent) ==
    IF parent \in {"ImportCall", "Call"} THEN <<")", ";">> ELSE <<";">>

Quote(literal) == IF literal = "StringLiteral" THEN DQ ELSE BQ

RenderStatement(st) ==
    Lead(st.parent) \o <<Quote(st.literal)>> \o st.text \o <<Quote(st.literal)>>
      \o Trail(st.parent)

Render(statements) ==
    LET RECURSIVE go(_)
        go(i) == IF i > Len(statements) THEN <<>>
                 ELSE RenderStatement(statements[i]) \o go(i + 1)
    IN go(1)

ParentOfLead(tok) ==
    CASE tok = "import " -> "ImportDeclaration"
      [] tok = "export * from " -> "ExportDeclaration"
      [] tok = "import(" -> "ImportCall"
      [] OTHER -> "Call"

\* The literal nodes of the tree in source order: the construct a literal
\* sits in, its kind, its text, and its offsets getStart() and getEnd().
createSourceFile(sourceText) ==
    LET closing(from, q) ==
            CHOOSE k \in from..Len(sourceText) :
                sourceText[k] = q /\ \A j \in from..(k - 1) : sourceText[j] # q
        RECURSIVE go(_, _)
        go(i, parent) ==
            IF i > Len(sourceText) THEN <<>>
            ELSE IF sourceText[i] \in {DQ, BQ}
            THEN LET k == closing(i + 1, sourceText[i])
                 IN << [parent |-> parent,
                        literal |-> IF sourceText[i] = DQ THEN "StringLiteral"
                                    ELSE "NoSubstitutionTemplateLiteral",
                        text |-> SubSeq(sourceText, i + 1, k - 1),
                        start |-> i - 1,
                        end |-> k] >> \o go(k + 1, parent)
            ELSE IF sourceText[i] \in {"import ", "export * from ", "import(", "mock("}
            THEN go(i + 1, ParentOfLead(sourceText[i]))
            ELSE go(i + 1, parent)
    IN go(1, "Call")

isStringLiteral(node) == node.literal = "StringLiteral"

isNoSubstitutionTemplateLiteral(node) == node.literal = "NoSubstitutionTemplateLiteral"

\* the edits applied in ascending order of start, each at the offsets it was
\* recorded with
applyEditsAscending(sourceText, edits) ==
    LET RECURSIVE go(_, _)
        go(output, keys) ==
            IF keys = {} THEN output
            ELSE LET k == CHOOSE x \in keys : \A y \in keys : x <= y
                     e == edits[k]
                 IN go(SubSeq(output, 1, e.start) \o e.text
                         \o SubSeq(output, e.end + 1, Len(output)),
                       keys \ {k})
    IN go(sourceText, DOMAIN edits)

\* output = output.slice(0, e.start) + e.text + output.slice(e.end), for the
\* edits sorted by descending start; edits is the Map keyed by start offset
applyEdits(sourceText, edits) ==
    LET RECURSIVE go(_, _)
        go(output, keys) ==
            IF keys = {} THEN output
            ELSE LET k == CHOOSE x \in keys : \A y \in keys : y <= x
                     e == edits[k]
                 IN go(SubSeq(output, 1, e.start) \o e.text
                         \o SubSeq(output, e.end + 1, Len(output)),
                       keys \ {k})
    IN go(sourceText, DOMAIN edits)

\* Map.prototype.set
MapSet(map, key, value) ==
    [k \in DOMAIN map \cup {key} |-> IF k = key THEN value ELSE map[k]]

EmptyMap == [k \in {} |-> {}]

\* ------------------------------------------------------------------------
\* Pass 1: updateImportsInFile
\* ------------------------------------------------------------------------

\* an acceptance test that also takes an alias as long as the specifier
relativeAliasNotLonger(bestAlias, spec) ==
    /\ bestAlias # None
    /\ bestAlias # <<>>
    /\ Len(bestAlias) <= Len(spec)

\* line 390: bestAlias && bestAlias.length < spec.length
relativeAliasAccepted(bestAlias, spec) ==
    /\ bestAlias # None
    /\ bestAlias # <<>>
    /\ Len(bestAlias) < Len(spec)

\* line 408: bestAlias && bestAlias !== spec
bareAliasAccepted(bestAlias, spec) ==
    /\ bestAlias # None
    /\ bestAlias # <<>>
    /\ bestAlias # spec

\* the edit of a literal: its text between the delimiters
literalEdit(node, text) ==
    [start |-> node.start + 1, end |-> node.end - 1, text |-> text]

\* one entry of the record of the resolver calls a file made
callRecord(moduleExpr, alias, edited, shadowed) ==
    [start |-> moduleExpr.start, parent |-> moduleExpr.parent,
     spec |-> moduleExpr.text, relative |-> isRelative(moduleExpr.text),
     bestAlias |-> alias, edited |-> edited, shadowed |-> shadowed]

\* lines 391-397 and 429-435: the edit and the rename pair are recorded
queueEdit(moduleExpr, st, alias) ==
    [st EXCEPT !.edits = MapSet(st.edits, moduleExpr.start + 1,
                                literalEdit(moduleExpr, alias)),
               !.updatedPathPairs = Append(st.updatedPathPairs,
                                           <<moduleExpr.text, alias>>),
               !.changed = TRUE,
               !.calls = Append(st.calls, callRecord(moduleExpr, alias, TRUE, FALSE))]

\* lines 390-398: the alias of a relative specifier is taken or not
decideRelative(moduleExpr, st, bestAlias) ==
    IF relativeAliasAccepted(bestAlias, moduleExpr.text)
    THEN queueEdit(moduleExpr, st, bestAlias)
    ELSE [st EXCEPT !.calls = Append(st.calls,
                        callRecord(moduleExpr, bestAlias, FALSE, FALSE))]

\* lines 386-398: a relative specifier
queueRelative(moduleExpr, st, fileDir, aliasInfo) ==
    decideRelative(moduleExpr, st,
                   buildAliasForTarget(PathResolve(fileDir, moduleExpr.text),
                                       aliasInfo.matchers, hasImportExt(moduleExpr.text)))

\* lines 412-427: the package lookup decides whether the edit is dropped
queueAfterLookup(moduleExpr, st, bestAlias, lookup) ==
    IF lookup.found
    THEN [st EXCEPT !.nodeModuleConflictCache = lookup.cache,
                    !.calls = Append(st.calls,
                                     callRecord(moduleExpr, bestAlias, FALSE, TRUE))]
    ELSE [queueEdit(moduleExpr, st, bestAlias)
             EXCEPT !.nodeModuleConflictCache = lookup.cache]

\* lines 409-435: the package name of the specifier is looked up, if it has one
queueForPackage(moduleExpr, st, fileDir, rootAbs, bestAlias, packageName) ==
    IF packageName = None THEN queueEdit(moduleExpr, st, bestAlias)
    ELSE queueAfterLookup(moduleExpr, st, bestAlias,
                          hasNodeModulesPackage(packageName, fileDir, rootAbs,
                                                st.nodeModuleConflictCache))

\* lines 409-435: a bare specifier whose alias was accepted
queueUnlessShadowed(moduleExpr, st, fileDir, rootAbs, bestAlias) ==
    queueForPackage(moduleExpr, st, fileDir, rootAbs, bestAlias,
                    getPackageNameFromSpecifier(moduleExpr.text))

\* lines 408-437: the alias of a bare specifier is taken or not
decideBare(moduleExpr, st, fileDir, rootAbs, bestAlias) ==
    IF bareAliasAccepted(bestAlias, moduleExpr.text)
    THEN queueUnlessShadowed(moduleExpr, st, fileDir, rootAbs, bestAlias)
    ELSE [st EXCEPT !.calls = Append(st.calls,
                        callRecord(moduleExpr, bestAlias, FALSE, FALSE))]

\* lines 399-437: a bare specifier
queueBare(moduleExpr, st, fileDir, aliasInfo, rootAbs) ==
    decideBare(moduleExpr, st, fileDir, rootAbs,
               resolveBareAlias(moduleExpr.text, aliasInfo.matchers, aliasInfo.baseUrl,
                                rootAbs, hasImportExt(moduleExpr.text)))

\* st is the state the closure works on: edits, updatedPathPairs, changed,
\* the node_modules cache, and the record of the calls made (calls)
queueModuleSpecifierRewrite(moduleExpr, st, filePath, aliasInfo, rootAbs) ==
    IF ~isStringLiteral(moduleExpr) THEN st
    ELSE IF isRelative(moduleExpr.text)
    THEN queueRelative(moduleExpr, st, Dirname(filePath), aliasInfo)
    ELSE queueBare(moduleExpr, st, Dirname(filePath), aliasInfo, rootAbs)

\* lines 440-451: the nodes whose literal is handed to queueModuleSpecifierRewrite
isVisitedSpecifier(node) ==
    node.parent \in {"ImportDeclaration", "ExportDeclaration", "ImportCall"}

\* lines 440-453: visit(sourceFile), from the state of the closure at the start
visitSpecifiers(nodes, filePath, aliasInfo, rootAbs, nmCache) ==
    LET RECURSIVE visit(_, _)
        visit(i, st) ==
            IF i > Len(nodes) THEN st
            ELSE IF isVisitedSpecifier(nodes[i])
            THEN visit(i + 1, queueModuleSpecifierRewrite(nodes[i], st, filePath,
                                                          aliasInfo, rootAbs))
            ELSE visit(i + 1, st)
    IN visit(1, [edits |-> EmptyMap, updatedPathPairs |-> <<>>, changed |-> FALSE,
                 nodeModuleConflictCache |-> nmCache, calls |-> <<>>])

\* lines 360-362 and 374-376: return { changed: false, text: sourceText, ... }
unchangedResult(sourceText, tsconfigPath, cfgCache, builds, nmCache, aliasInfo) ==
    [changed |-> FALSE, text |-> sourceText, updatedPathPairs |-> <<>>,
     tsconfigPath |-> tsconfigPath, tsconfigCache |-> cfgCache,
     builds |-> builds, nodeModuleConflictCache |-> nmCache,
     aliasInfo |-> aliasInfo, edits |-> EmptyMap, calls |-> <<>>]

\* lines 455-465: the result of a file whose specifiers were visited
rewriteResult(sourceText, tsconfigPath, cfgCache, builds, aliasInfo, end) ==
    [changed |-> end.changed,
     text |-> IF end.changed THEN applyEdits(sourceText, end.edits) ELSE sourceText,
     updatedPathPairs |-> end.updatedPathPairs,
     tsconfigPath |-> tsconfigPath, tsconfigCache |-> cfgCache, builds |-> builds,
     nodeModuleConflictCache |-> end.nodeModuleConflictCache,
     aliasInfo |-> aliasInfo, edits |-> end.edits, calls |-> end.calls]

\* lines 374-376: a configuration without paths leaves the file alone
rewriteWithAliases(filePath, sourceText, tsconfigPath, cfgCache, builds, nmCache, aliasInfo, rootDir) ==
    IF aliasInfo = NullInfo
    THEN unchangedResult(sourceText, tsconfigPath, cfgCache, builds, nmCache, aliasInfo)
    ELSE rewriteResult(sourceText, tsconfigPath, cfgCache, builds, aliasInfo,
                       visitSpecifiers(createSourceFile(sourceText), filePath, aliasInfo,
                                       PathResolve(rootDir, <<>>), nmCache))

\* lines 366-372: the matchers are built and stored in the cache
rewriteBuilt(filePath, sourceText, tsconfigPath, cfgCache, nmCache, aliasInfo, rootDir) ==
    rewriteWithAliases(filePath, sourceText, tsconfigPath,
                       MapSet(cfgCache, tsconfigPath, aliasInfo), TRUE, nmCache,
                       aliasInfo, rootDir)

\* lines 364-372: what the cache holds is used unless it is null or absent
rewriteCached(filePath, sourceText, tsconfigPath, cfgCache, nmCache, cached, rootDir) ==
    IF cached # NullInfo
    THEN rewriteWithAliases(filePath, sourceText, tsconfigPath, cfgCache, FALSE, nmCache,
                            cached, rootDir)
    ELSE rewriteBuilt(filePath, sourceText, tsconfigPath, cfgCache, nmCache,
                      buildAliasMatchers(tsconfigPath, rootDir), rootDir)

\* line 364: tsconfigCache.get(tsconfigPath)
cacheGet(cfgCache, tsconfigPath) ==
    IF tsconfigPath \in DOMAIN cfgCache THEN cfgCache[tsconfigPath] ELSE NullInfo

\* lines 359-362: without a configuration the file is left alone
rewriteUnderConfig(filePath, sourceText, tsconfigPath, cfgCache, nmCache, rootDir) ==
    IF tsconfigPath = None
    THEN unchangedResult(sourceText, tsconfigPath, cfgCache, FALSE, nmCache, NullInfo)
    ELSE rewriteCached(filePath, sourceText, tsconfigPath, cfgCache, nmCache,
                       cacheGet(cfgCache, tsconfigPath), rootDir)

\* the body of updateImportsInFile, for the text that readFileSync returned
rewriteImports(filePath, sourceText, cfgCache, nmCache, rootDir) ==
    rewriteUnderConfig(filePath, sourceText,
                       findNearestTsconfig(Dirname(filePath), rootDir),
                       cfgCache, nmCache, rootDir)

\* fs.readFileSync(filePath, "utf8")
readFileSync(filePath) == disk[filePath]

updateImportsInFile(filePath, cfgCache, nmCache, rootDir) ==
    rewriteImports(filePath, readFileSync(filePath), cfgCache, nmCache, rootDir)

\* ------------------------------------------------------------------------
\* Pass 2: the stable replacement map and updatePathReferencesInFile
\* ------------------------------------------------------------------------

isImportExportModuleSpecifier(node) ==
    node.parent \in {"ImportDeclaration", "ExportDeclaration"}

\* a lookup that takes a key the text merely starts with
replacementForPrefix(node, replacementMap) ==
    IF \E key \in DOMAIN replacementMap :
          StartsWith(node.text, key) /\ replacementMap[key] # node.text
    THEN replacementMap[CHOOSE key \in DOMAIN replacementMap :
                            StartsWith(node.text, key) /\ replacementMap[key] # node.text]
    ELSE None

\* lines 496-497: replacementMap.get(node.text), taken when it is a different text
replacementFor(node, replacementMap) ==
    IF node.text \in DOMAIN replacementMap
         /\ replacementMap[node.text] # <<>>
         /\ replacementMap[node.text] # node.text
    THEN replacementMap[node.text]
    ELSE None

\* lines 491-505: the literals whose text the map replaces get an edit
referenceEdits(nodes, replacementMap) ==
    LET RECURSIVE visit(_, _)
        visit(i, edits) ==
            IF i > Len(nodes) THEN edits
            ELSE IF (isStringLiteral(nodes[i]) \/ isNoSubstitutionTemplateLiteral(nodes[i]))
                      /\ ~isImportExportModuleSpecifier(nodes[i])
                      /\ replacementFor(nodes[i], replacementMap) # None
            THEN visit(i + 1, MapSet(edits, nodes[i].start + 1,
                                     literalEdit(nodes[i],
                                                 replacementFor(nodes[i], replacementMap))))
            ELSE visit(i + 1, edits)
    IN visit(1, EmptyMap)

\* lines 510-522: the text with the edits applied, if there are any
referenceResult(sourceText, edits) ==
    IF DOMAIN edits = {}
    THEN [changed |-> FALSE, text |-> sourceText, edits |-> EmptyMap]
    ELSE [changed |-> TRUE, text |-> applyEdits(sourceText, edits), edits |-> edits]

\* lines 478-522: updatePathReferencesInFile for the text that readFileSync returned
updateReferences(sourceText, replacementMap) ==
    IF DOMAIN replacementMap = {}
    THEN [changed |-> FALSE, text |-> sourceText, edits |-> EmptyMap]
    ELSE referenceResult(sourceText,
                         referenceEdits(createSourceFile(sourceText), replacementMap))

updatePathReferencesInFile(filePath, replacementMap) ==
    updateReferences(readFileSync(filePath), replacementMap)

\* a map that keeps one of the new texts of an ambiguous old text
buildFirstWinsMap(pathMap) ==
    [stableMap |-> [k \in DOMAIN pathMap |-> CHOOSE v \in pathMap[k] : TRUE],
     conflicts |-> {f \in DOMAIN pathMap : Cardinality(pathMap[f]) # 1}]

buildStableReplacementMap(pathMap) ==
    [stableMap |-> [k \in {f \in DOMAIN pathMap : Cardinality(pathMap[f]) = 1} |->
                      CHOOSE v \in pathMap[k] : TRUE],
     conflicts |-> {f \in DOMAIN pathMap : Cardinality(pathMap[f]) # 1}]

\* lines 577-584: the rename pairs of one file added to updatedPathMap
addPairs(pathMap, pairs) ==
    LET RECURSIVE go(_, _)
        go(i, map) ==
            IF i > Len(pairs) THEN map
            ELSE LET from == pairs[i][1]
                     set == IF from \in DOMAIN map THEN map[from] ELSE {}
                 IN go(i + 1, MapSet(map, from, set \cup {pairs[i][2]}))
    IN go(1, pathMap)

\* ------------------------------------------------------------------------
\* The trees, configurations and command lines the run starts from
\* ------------------------------------------------------------------------

\* the most entries a "paths" object of the root configuration has
MaxEntries == 2

\* the entries a "paths" object is made of: alias pattern -> target patterns
PathEntries ==
    << [alias |-> <<"@", "/", "*">>, targets |-> << <<"s", "/", "*">> >>],
       [alias |-> <<"a", "/", "*">>,
        targets |-> << <<"s", "/", "*">>, <<"s", "/", "c", "/", "*">> >>],
       [alias |-> <<"@", "h">>,
        targets |-> << <<"s", "/", "c", "/", "h", ".", "t", "s">> >>],
       [alias |-> <<"c", "/", "*">>, targets |-> << <<"s", "/", "c", "/", "*">> >>] >>

\* "paths" objects: up to MaxEntries entries with distinct keys, in any order
PathsObjects ==
    LET injective(f) == \A i, j \in DOMAIN f : i # j => f[i] # f[j]
        picks(n) == {f \in [1..n -> 1..Len(PathEntries)] : injective(f)}
    IN UNION {{[i \in 1..n |-> PathEntries[f[i]]] : f \in picks(n)} : n \in 0..MaxEntries}

\* the configuration of the nested directory: no baseUrl, "~~/*" -> ["s/*"]
NestedOptions ==
    [baseUrl |-> None,
     paths |-> << [alias |-> <<"~", "~", "/", "*">>,
                   targets |-> << <<"s", "/", "*">> >>] >>]

\* the sets of directories that hold a tsconfig.json
Layouts == {{RootDir}, {RootDir, NestedDir}, {FsTop, NestedDir}}

\* the specifier texts the files use
SpecifierTexts ==
    { <<".", ".", "/", ".", ".", "/", "c", "/", "h", ".", "t", "s">>,
      <<".", ".", "/", "c", "/", "h">>,
      <<"c", "/", "h">>,
      <<"c", "/", "h", ".", "t", "s">>,
      <<"s", "/", "c", "/", "h", ".", "t", "s">>,
      <<"h">> }

\* the constructs a module specifier comes in
SpecifierForms ==
    { [parent |-> "ImportDeclaration", literal |-> "StringLiteral"],
      [parent |-> "ExportDeclaration", literal |-> "StringLiteral"],
      [parent |-> "ImportCall", literal |-> "StringLiteral"],
      [parent |-> "ImportCall", literal |-> "NoSubstitutionTemplateLiteral"] }

Statement(parent, literal, text) == [parent |-> parent, literal |-> literal, text |-> text]

\* The files in the order of SourceFiles: the module, which imports nothing;
\* an import of the text in a declaration; the text as the specifier of a
\* chosen construct, in another directory; and a test file that mentions the
\* text in mock() calls, once inside a longer text.
InitialStatements(form, text) ==
    << << >>,
       << Statement("ImportDeclaration", "StringLiteral", text) >>,
       << Statement(form.parent, form.literal, text) >>,
       << Statement("Call", "StringLiteral", text),
          Statement("Call", "NoSubstitutionTemplateLiteral", text),
          Statement("Call", "StringLiteral", text \o <<"2">>) >> >>

FileIndex(filePath) == CHOOSE i \in 1..NumFiles : SourceFiles[i] = filePath

FilePaths == {SourceFiles[i] : i \in 1..NumFiles}

Init ==
    /\ args \in [write : BOOLEAN, updateRefs : BOOLEAN]
    /\ \E layout \in Layouts, paths \in PathsObjects :
          tsconfigs = [d \in layout |->
                         IF d = NestedDir THEN NestedOptions
                         ELSE [baseUrl |-> <<".">>, paths |-> paths]]
    /\ packages \in {{}, {InstalledPackage}}
    /\ \E form \in SpecifierForms, text \in SpecifierTexts :
          disk = [f \in FilePaths |-> Render(InitialStatements(form, text)[FileIndex(f)])]
    /\ original = disk
    /\ tsconfigCache = EmptyMap
    /\ built = EmptyMap
    /\ nodeModuleConflictCache = EmptyMap
    /\ updatedPathMap = EmptyMap
    /\ stableMap = EmptyMap
    /\ conflicts = {}
    /\ pc = "scan"
    /\ cursor = 1
    /\ filesScanned = 0
    /\ filesChanged = 0
    /\ postProcessedFilesChanged = 0
    /\ scanLog = <<>>
    /\ postLog = <<>>
    /\ written = {}
    /\ summary = NullInfo

\* ------------------------------------------------------------------------
\* main()
\* ------------------------------------------------------------------------

\* a run that writes whatever changed, applying or not
writesWhenChanged(changed) == changed

\* lines 585-588 and 611-615: if (changed) { ... if (args.write) writeFileSync }
writesFile(changed) == changed /\ args.write

\* lines 563-593: one iteration of the loop over walk()
ScanFile ==
    /\ pc = "scan"
    /\ \E file \in {SourceFiles[cursor]} :
       \E r \in {updateImportsInFile(file, tsconfigCache, nodeModuleConflictCache, RootDir)} :
          /\ filesScanned' = filesScanned + 1
          /\ tsconfigCache' = r.tsconfigCache
          /\ built' = IF r.builds
                      THEN MapSet(built, r.tsconfigPath,
                                  IF r.tsconfigPath \in DOMAIN built
                                  THEN built[r.tsconfigPath] + 1 ELSE 1)
                      ELSE built
          /\ nodeModuleConflictCache' = r.nodeModuleConflictCache
          /\ updatedPathMap' = addPairs(updatedPathMap, r.updatedPathPairs)
          /\ filesChanged' = IF r.changed THEN filesChanged + 1 ELSE filesChanged
          /\ disk' = IF writesFile(r.changed) THEN [disk EXCEPT ![file] = r.text]
                     ELSE disk
          /\ written' = IF writesFile(r.changed) THEN written \cup {<<"scan", file>>}
                        ELSE written
          /\ scanLog' = Append(scanLog, [file |-> file, changed |-> r.changed,
                                         text |-> r.text, before |-> disk[file],
                                         updatedPathPairs |-> r.updatedPathPairs,
                                         tsconfigPath |-> r.tsconfigPath,
                                         aliasInfo |-> r.aliasInfo,
                                         edits |-> r.edits, calls |-> r.calls])
    /\ cursor' = cursor + 1
    /\ pc' = IF cursor = NumFiles THEN "scanned" ELSE "scan"
    /\ UNCHANGED <<args, tsconfigs, packages, original, stableMap, conflicts,
                   postProcessedFilesChanged, postLog, summary>>

\* lines 595-607: the propagation pass is entered
BuildStableMap ==
    /\ pc = "scanned"
    /\ args.updateRefs /\ DOMAIN updatedPathMap # {}
    /\ LET r == buildStableReplacementMap(updatedPathMap)
       IN /\ stableMap' = r.stableMap
          /\ conflicts' = r.conflicts
    /\ pc' = "post"
    /\ cursor' = 1
    /\ UNCHANGED <<args, tsconfigs, packages, disk, original, tsconfigCache, built,
                   nodeModuleConflictCache, updatedPathMap, filesScanned, filesChanged,
                   postProcessedFilesChanged, scanLog, postLog, written, summary>>

\* line 595: the propagation pass is not entered
SkipPostProcess ==
    /\ pc = "scanned"
    /\ ~(args.updateRefs /\ DOMAIN updatedPathMap # {})
    /\ pc' = "report"
    /\ UNCHANGED <<args, tsconfigs, packages, disk, original, tsconfigCache, built,
                   nodeModuleConflictCache, updatedPathMap, stableMap, conflicts, cursor,
                   filesScanned, filesChanged, postProcessedFilesChanged, scanLog,
                   postLog, written, summary>>

\* lines 609-619: one iteration of the loop over allSourceFiles
PostProcessFile ==
    /\ pc = "post"
    /\ \E file \in {SourceFiles[cursor]} :
       \E r \in {updatePathReferencesInFile(file, stableMap)} :
          /\ postProcessedFilesChanged' =
                IF r.changed THEN postProcessedFilesChanged + 1
                ELSE postProcessedFilesChanged
          /\ disk' = IF writesFile(r.changed) THEN [disk EXCEPT ![file] = r.text]
                     ELSE disk
          /\ written' = IF writesFile(r.changed) THEN written \cup {<<"post", file>>}
                        ELSE written
          /\ postLog' = Append(postLog, [file |-> file, changed |-> r.changed,
                                         text |-> r.text, before |-> disk[file],
                                         edits |-> r.edits])
    /\ cursor' = cursor + 1
    /\ pc' = IF cursor = NumFiles THEN "report" ELSE "post"
    /\ UNCHANGED <<args, tsconfigs, packages, original, tsconfigCache, built,
                   nodeModuleConflictCache, updatedPathMap, stableMap, conflicts,
                   filesScanned, filesChanged, scanLog, summary>>

\* lines 622-635: the counts are printed
Report ==
    /\ pc = "report"
    /\ summary' = [scanned |-> filesScanned, updated |-> filesChanged,
                   postProcessed |-> IF args.updateRefs THEN postProcessedFilesChanged
                                     ELSE 0,
                   applied |-> args.write]
    /\ pc' = "done"
    /\ UNCHANGED <<args, tsconfigs, packages, disk, original, tsconfigCache, built,
                   nodeModuleConflictCache, updatedPathMap, stableMap, conflicts, cursor,
                   filesScanned, filesChanged, postProcessedFilesChanged, scanLog,
                   postLog, written>>

Next ==
    \/ ScanFile
    \/ BuildStableMap
    \/ SkipPostProcess
    \/ PostProcessFile
    \/ Report

Spec == Init /\ [][Next]_vars

\* ------------------------------------------------------------------------
\* Runs over configurations with irregular patterns: more than one wildcard
\* in a pattern, a target directory whose name another directory continues,
\* and an alias without wildcard for a directory
\* ------------------------------------------------------------------------

IrregularEntries ==
    << [alias |-> <<"@", "*", "/", "*">>, targets |-> << <<"s", "/", "*">> >>],
       [alias |-> <<"b", "/", "*">>, targets |-> << <<"s", "/", "*", "/", "*">> >>],
       [alias |-> <<"c", "/", "*">>, targets |-> << <<"s", "/", "c", "/", "*">> >>],
       [alias |-> <<"x">>, targets |-> << <<"s", "/", "c">> >>] >>

\* "paths" objects of one or two of these entries, in any order
IrregularPaths ==
    {<<IrregularEntries[i]>> : i \in 1..Len(IrregularEntries)}
      \cup {<<IrregularEntries[pair[1]], IrregularEntries[pair[2]]>> :
              pair \in {q \in (1..Len(IrregularEntries)) \X (1..Len(IrregularEntries)) :
                          q[1] # q[2]}}

\* relative specifiers: of the module, and of a file in the directory c2
IrregularTexts ==
    { <<".", ".", "/", "c", "/", "h">>,
      <<".", ".", "/", ".", ".", "/", "c", "/", "h">>,
      <<".", ".", "/", "c", "2", "/", "h">> }

PatternInit ==
    /\ args \in [write : BOOLEAN, updateRefs : BOOLEAN]
    /\ \E paths \in IrregularPaths :
          tsconfigs = [d \in {RootDir} |-> [baseUrl |-> <<".">>, paths |-> paths]]
    /\ packages = {}
    /\ \E form \in SpecifierForms, text \in IrregularTexts :
          disk = [f \in FilePaths |-> Render(InitialStatements(form, text)[FileIndex(f)])]
    /\ original = disk
    /\ tsconfigCache = EmptyMap
    /\ built = EmptyMap
    /\ nodeModuleConflictCache = EmptyMap
    /\ updatedPathMap = EmptyMap
    /\ stableMap = EmptyMap
    /\ conflicts = {}
    /\ pc = "scan"
    /\ cursor = 1
    /\ filesScanned = 0
    /\ filesChanged = 0
    /\ postProcessedFilesChanged = 0
    /\ scanLog = <<>>
    /\ postLog = <<>>
    /\ written = {}
    /\ summary = NullInfo

PatternSpec == PatternInit /\ [][Next]_vars

\* ------------------------------------------------------------------------
\* What the claims are stated over
\* ------------------------------------------------------------------------

\* pass 1 has just handled a file: what it returned is examined in the state
\* that follows, before the propagation pass starts
Scanned == Len(scanLog) > 0 /\ pc \in {"scan", "scanned"}

\* what updateImportsInFile returned for the file pass 1 handled last
LastScan == scanLog[Len(scanLog)]

Range(seq) == {seq[i] : i \in 1..Len(seq)}

\* every order of the elements of a sequence
Orderings(seq) ==
    LET RECURSIVE from(_)
        from(positions) ==
            IF positions = {} THEN {<<>>}
            ELSE UNION {{<<seq[i]>> \o rest : rest \in from(positions \ {i})} :
                           i \in positions}
    IN from(1..Len(seq))

\* a is before b in the lexicographic order of the collation
LexBefore(a, b) ==
    \E i \in 1..Len(a) :
        /\ i <= Len(b)
        /\ SubSeq(a, 1, i - 1) = SubSeq(b, 1, i - 1)
        /\ CharRank(a[i]) < CharRank(b[i])

\* the candidates of a recorded resolver call under the given matchers
CandidatesOf(entry, call, matchers) ==
    IF call.relative
    THEN targetCandidates(PathResolve(Dirname(entry.file), call.spec), matchers,
                          hasImportExt(call.spec))
    ELSE bareCandidates(call.spec, matchers, entry.aliasInfo.baseUrl, RootDir,
                        hasImportExt(call.spec))

\* the alias the resolver of a recorded call returns under the given matchers
ResolvedWith(entry, call, matchers) ==
    IF call.relative
    THEN buildAliasForTarget(PathResolve(Dirname(entry.file), call.spec), matchers,
                             hasImportExt(call.spec))
    ELSE resolveBareAlias(call.spec, matchers, entry.aliasInfo.baseUrl, RootDir,
                          hasImportExt(call.spec))

\* C1: the alias a resolver returns is one of the candidates of its matchers,
\* no candidate is shorter, every other candidate of the same length comes
\* later in lexicographic order, and the resolver returns the same alias for
\* every order of declaration of the matchers; it returns null exactly when
\* there is no candidate.
ShortestAliasSelected ==
    Scanned =>
      \A k \in 1..Len(LastScan.calls) :
        LET call == LastScan.calls[k]
            matchers == LastScan.aliasInfo.matchers
            candidates == Range(CandidatesOf(LastScan, call, matchers))
            best == call.bestAlias
        IN /\ (candidates = {}) <=> (best = None)
           /\ candidates # {} =>
                /\ best \in candidates
                /\ \A c \in candidates : Len(best) <= Len(c)
                /\ \A c \in candidates : Len(c) = Len(best) /\ c # best => LexBefore(best, c)
                /\ \A order \in Orderings(matchers) :
                      ResolvedWith(LastScan, call, order) = best

\* C1 witness: two different candidates of the same, minimal length, and the
\* one declared first is not the one returned
TieBrokenAgainstDeclarationOrder ==
    /\ Scanned
    /\ \E k \in 1..Len(LastScan.calls) :
         LET call == LastScan.calls[k]
             candidates == CandidatesOf(LastScan, call, LastScan.aliasInfo.matchers)
         IN /\ Len(candidates) >= 2
            /\ candidates[1] # call.bestAlias
            /\ Len(candidates[1]) = Len(call.bestAlias)
            /\ \A i \in 1..Len(candidates) : Len(call.bestAlias) <= Len(candidates[i])

\* the literal nodes of the text pass 1 read, and of the text it returned
BeforeNodes == createSourceFile(LastScan.before)
AfterNodes == createSourceFile(LastScan.text)

\* the alias buildAliasForTarget returns for a relative specifier of the file
\* pass 1 handled last, under the configuration pass 1 used for it
RelativeBest(spec) ==
    IF LastScan.aliasInfo = NullInfo THEN None
    ELSE buildAliasForTarget(PathResolve(Dirname(LastScan.file), spec),
                             LastScan.aliasInfo.matchers, hasImportExt(spec))

\* C2: for every relative specifier of a file, an edit is recorded only with
\* a text strictly shorter than the specifier, the text the pass returns for
\* the literal is the specifier itself or a strictly shorter text, and when
\* the best alias is absent or not strictly shorter the literal is unchanged
\* and no rename pair of the file starts from the specifier.
RelativeRewriteOnlyShortens ==
    Scanned =>
      \A k \in 1..Len(BeforeNodes) :
        LET node == BeforeNodes[k]
            after == AfterNodes[k].text
            best == RelativeBest(node.text)
        IN isVisitedSpecifier(node) /\ isRelative(node.text) =>
             /\ (node.start + 1) \in DOMAIN LastScan.edits =>
                    Len(LastScan.edits[node.start + 1].text) < Len(node.text)
             /\ after # node.text => Len(after) < Len(node.text)
             /\ (best = None \/ Len(best) >= Len(node.text)) =>
                    /\ after = node.text
                    /\ \A i \in 1..Len(LastScan.updatedPathPairs) :
                          LastScan.updatedPathPairs[i][1] # node.text

\* C2 witness: a relative specifier whose best alias is exactly as long as
\* the specifier was left as it was
EqualLengthAliasDeclined ==
    /\ Scanned
    /\ \E k \in 1..Len(BeforeNodes) :
         /\ isVisitedSpecifier(BeforeNodes[k])
         /\ isStringLiteral(BeforeNodes[k])
         /\ isRelative(BeforeNodes[k].text)
         /\ RelativeBest(BeforeNodes[k].text) # None
         /\ Len(RelativeBest(BeforeNodes[k].text)) = Len(BeforeNodes[k].text)
         /\ AfterNodes[k].text = BeforeNodes[k].text
    /\ ~LastScan.changed

\* C3: running the import rewrite on the text it returned, under the same
\* configuration, records no edit and no rename pair.
RewriteIsIdempotent ==
    Scanned =>
      LET again == rewriteImports(LastScan.file, LastScan.text, tsconfigCache,
                                  nodeModuleConflictCache, RootDir)
      IN /\ DOMAIN again.edits = {}
         /\ again.updatedPathPairs = <<>>
         /\ again.text = LastScan.text

\* a is b or a directory above b, for the segments of both
IsAncestorOrSelf(a, b) == Len(a) <= Len(b) /\ SubSeq(b, 1, Len(a)) = a

\* the directories from the directory of a file up to and including the root
ChainOf(file) ==
    {d \in Directories : /\ IsAncestorOrSelf(AbsSegs(d), AbsSegs(Dirname(file)))
                         /\ IsAncestorOrSelf(AbsSegs(RootDir), AbsSegs(d))}

\* the directories of that chain that hold a tsconfig.json
ConfiguredOn(file) == ChainOf(file) \cap DOMAIN tsconfigs

\* the closest of a set of directories of one chain to the file: the deepest
Deepest(dirs) == CHOOSE d \in dirs : \A e \in dirs : Len(e) <= Len(d)

NearestConfigDir(file) == Deepest(ConfiguredOn(file))

\* the alias prefixes a configuration declares: its keys up to the wildcard
DeclaredPrefixes(dir) ==
    {parseStarPattern(tsconfigs[dir].paths[i].alias).prefix :
        i \in 1..Len(tsconfigs[dir].paths)}

\* every literal that pass 1 changed starts with one of the prefixes
ChangedStartWith(before, after, prefixes) ==
    \A k \in 1..Len(before) :
       after[k].text # before[k].text =>
          \E prefix \in prefixes : StartsWith(after[k].text, prefix)

\* what pass 1 returned for a file is what the configuration of dir gives
UsedConfigOf(entry, dir) ==
    /\ entry.tsconfigPath = PathJoin(dir, TsconfigName)
    /\ entry.aliasInfo = buildAliasMatchers(PathJoin(dir, TsconfigName), RootDir)
    /\ ChangedStartWith(createSourceFile(entry.before), createSourceFile(entry.text),
                        DeclaredPrefixes(dir))

\* what pass 1 returned for a file, given the configured directories of its chain
UsedNearestOf(entry, configured) ==
    IF configured = {}
    THEN /\ entry.tsconfigPath = None
         /\ entry.aliasInfo = NullInfo
         /\ ~entry.changed
         /\ entry.text = entry.before
    ELSE UsedConfigOf(entry, Deepest(configured))

\* C4: the configuration pass 1 uses for a file is the tsconfig.json of the
\* closest directory, from the directory of the file up to and including the
\* root, that holds one: the matchers are those of that file, every new
\* specifier starts with an alias prefix that file declares, and a file with
\* no configuration on that chain is left alone, whatever lies above the root.
NearestConfigurationUsed ==
    Scanned => UsedNearestOf(LastScan, ConfiguredOn(LastScan.file))

\* C4 witness: a file of the nested directory was rewritten with the alias of
\* the nested configuration although a mapping of the root configuration
\* applies to the same specifier
NestedConfigurationWins ==
    /\ Scanned
    /\ LastScan.file = SourceFiles[2]
    /\ LastScan.changed
    /\ NearestConfigDir(LastScan.file) = NestedDir
    /\ RootDir \in DOMAIN tsconfigs
    /\ \E k \in 1..Len(LastScan.calls) :
         /\ LastScan.calls[k].edited
         /\ Len(tsconfigs[RootDir].paths) > 0
         /\ ResolvedWith([LastScan EXCEPT
                            !.aliasInfo = buildAliasMatchers(PathJoin(RootDir, TsconfigName),
                                                             RootDir)],
                         LastScan.calls[k],
                         buildAliasMatchers(PathJoin(RootDir, TsconfigName),
                                            RootDir).matchers) # None

\* the pairs (old text, new text) of the literals a pass changed in one file
ChangedPairs(before, after) ==
    {<<before[k].text, after[k].text>> :
        k \in {j \in 1..Len(before) : before[j].text # after[j].text}}

\* the pairs (old text, new text) of the literals pass 1 changed, read off
\* the texts it was given and the texts it returned
Rewrites ==
    UNION {ChangedPairs(createSourceFile(scanLog[i].before),
                        createSourceFile(scanLog[i].text)) :
             i \in 1..Len(scanLog)}

\* the new texts an old text was rewritten to, among the given pairs
NewTextsIn(rewrites, old) == {pair[2] : pair \in {q \in rewrites : q[1] = old}}

NewTexts(old) == NewTextsIn(Rewrites, old)

AmbiguousIn(rewrites) ==
    {pair[1] : pair \in {q \in rewrites : Cardinality(NewTextsIn(rewrites, q[1])) >= 2}}

AmbiguousTexts == AmbiguousIn(Rewrites)

\* the propagation pass was entered
Propagating == pc \in {"post", "report", "done"} /\ args.updateRefs /\ Rewrites # {}

\* a pass left the literals with one of the given texts as they were
LeftAlone(before, after, texts) ==
    \A k \in 1..Len(before) : before[k].text \in texts => after[k].text = before[k].text

\* the stable map and the conflicts are those of the given pairs, and pass 2
\* left the literals with an ambiguous text alone
ExcludedFor(rewrites, ambiguous) ==
    /\ \A pair \in rewrites :
          IF pair[1] \in ambiguous
          THEN pair[1] \notin DOMAIN stableMap /\ pair[1] \in conflicts
          ELSE pair[1] \in DOMAIN stableMap /\ stableMap[pair[1]] = pair[2]
    /\ ambiguous # {} =>
          \A i \in 1..Len(postLog) :
             LeftAlone(createSourceFile(postLog[i].before),
                       createSourceFile(postLog[i].text), ambiguous)

ExcludedIn(rewrites) == ExcludedFor(rewrites, AmbiguousIn(rewrites))

\* C5: once the propagation pass is entered, an old text rewritten to two or
\* more new texts is no key of the stable map and is among the conflicts, an
\* old text rewritten to exactly one new text is a key with that text as its
\* value, and the propagation pass leaves every literal whose text is an
\* ambiguous old text as it was.
AmbiguousTextsExcluded == Propagating => ExcludedIn(Rewrites)

\* C5 witness: the run is over, one old text was rewritten to two new texts,
\* and the propagation pass met a literal with that text
AmbiguousLiteralMet ==
    /\ pc = "done"
    /\ Propagating
    /\ \E i \in 1..Len(postLog) :
         \E k \in 1..Len(createSourceFile(postLog[i].before)) :
            /\ createSourceFile(postLog[i].before)[k].parent = "Call"
            /\ createSourceFile(postLog[i].before)[k].text \in AmbiguousTexts

\* the package name of a bare specifier exists under a node_modules directory
\* between the directory of the file and the root
Shadowed(file, spec) ==
    /\ getPackageNameFromSpecifier(spec) # None
    /\ \E d \in ChainOf(file) :
          PathJoin(d, NodeModulesName \o <<"/">> \o getPackageNameFromSpecifier(spec))
             \in packages

\* a pass returned every shadowed bare specifier of a file as it was given
ShadowedKeptIn(entry) ==
    \A k \in 1..Len(createSourceFile(entry.before)) :
       LET node == createSourceFile(entry.before)[k]
       IN isVisitedSpecifier(node) /\ ~isRelative(node.text)
            /\ Shadowed(entry.file, node.text) =>
               createSourceFile(entry.text)[k].text = node.text

\* C6: in both passes, the bare specifier of an import, an export or a dynamic
\* import() whose package name exists under a node_modules directory reachable
\* from the file is returned unchanged.
ShadowedSpecifierNeverRewritten ==
    /\ \A i \in 1..Len(scanLog) : ShadowedKeptIn(scanLog[i])
    /\ \A i \in 1..Len(postLog) : ShadowedKeptIn(postLog[i])

\* the literal nodes of the text the run ends with for the i-th file
FinalNodes(i) ==
    IF i <= Len(postLog) THEN createSourceFile(postLog[i].text)
    ELSE createSourceFile(scanLog[i].text)

\* the text a literal that is no module specifier is to end with
ReferenceText(text, rewrites) ==
    IF args.updateRefs /\ Cardinality(NewTextsIn(rewrites, text)) = 1
    THEN CHOOSE new \in NewTextsIn(rewrites, text) : TRUE
    ELSE text

\* the literals of one file that are no module specifiers: pass 1 returned
\* them (scanned) as they were (nodes) and the run ends with them (final) as
\* the pairs require
ReferencesOf(nodes, scanned, final, rewrites) ==
    \A k \in 1..Len(nodes) :
       nodes[k].parent = "Call" =>
          /\ scanned[k].text = nodes[k].text
          /\ final[k].text = ReferenceText(nodes[k].text, rewrites)

ReferencesExactFor(rewrites) ==
    \A i \in 1..NumFiles :
       ReferencesOf(createSourceFile(original[SourceFiles[i]]),
                    createSourceFile(scanLog[i].text), FinalNodes(i), rewrites)

\* C7: at the end of a run, a literal of either kind that is no module
\* specifier has the single new text of its own text when propagation is
\* enabled and its text was rewritten to exactly one new text in pass 1, and
\* has its own text otherwise: without --update-refs, when its text is no
\* key, and when a key is only a part of it; pass 1 never changes it.
ReferencesReplacedExactly == pc = "done" => ReferencesExactFor(Rewrites)

\* C7 witness: a run with --update-refs replaced a literal equal to a key and
\* left alone a literal that starts with that key
ExactReferenceReplaced ==
    /\ pc = "done"
    /\ args.updateRefs
    /\ \E i \in 1..Len(postLog) :
         \E k, j \in 1..Len(createSourceFile(postLog[i].before)) :
            LET nodes == createSourceFile(postLog[i].before)
                after == createSourceFile(postLog[i].text)
            IN /\ nodes[k].parent = "Call" /\ nodes[j].parent = "Call"
               /\ nodes[k].text \in DOMAIN stableMap
               /\ after[k].text = stableMap[nodes[k].text]
               /\ after[k].text # nodes[k].text
               /\ nodes[j].text # nodes[k].text
               /\ StartsWith(nodes[j].text, nodes[k].text)
               /\ after[j].text = nodes[j].text

\* C8: without --write no file is written in either pass and every file has
\* the text it had before the run; with --write a file is written in a pass
\* only if that pass reported it changed, and only a written file differs
\* from what it was.
WrittenOnlyWhenApplied ==
    /\ ~args.write => disk = original /\ written = {}
    /\ \A w \in written :
          /\ args.write
          /\ IF w[1] = "scan" THEN scanLog[FileIndex(w[2])].changed
             ELSE postLog[FileIndex(w[2])].changed
    /\ \A f \in FilePaths : disk[f] # original[f] => \E w \in written : w[2] = f

\* C8 witness: a run without --write ended after both passes reported changed
\* files, and the files are as they were
DryRunReportedChanges ==
    /\ pc = "done"
    /\ ~args.write
    /\ filesChanged > 0
    /\ postProcessedFilesChanged > 0
    /\ disk = original

\* C9: every new specifier ends with a recognised extension (.ts, .tsx, .js,
\* .jsx) exactly when the specifier it replaces does, under any matcher, with
\* or without wildcard, in both modes.
ExtensionPresencePreserved ==
    Scanned =>
      \A i \in 1..Len(LastScan.updatedPathPairs) :
         hasImportExt(LastScan.updatedPathPairs[i][2])
           <=> hasImportExt(LastScan.updatedPathPairs[i][1])

\* the text pass 1 is to return for a module specifier: the alias of its
\* resolver when the mode accepts it and no package shadows it
ExpectedText(spec) ==
    IF LastScan.aliasInfo = NullInfo THEN spec
    ELSE IF isRelative(spec)
    THEN IF relativeAliasAccepted(RelativeBest(spec), spec) THEN RelativeBest(spec)
         ELSE spec
    ELSE LET best == resolveBareAlias(spec, LastScan.aliasInfo.matchers,
                                      LastScan.aliasInfo.baseUrl, RootDir,
                                      hasImportExt(spec))
         IN IF bareAliasAccepted(best, spec) /\ ~Shadowed(LastScan.file, spec)
            THEN best ELSE spec

\* C10: pass 1 rewrites the module specifier of every import declaration,
\* every export declaration and every dynamic import(), whether the argument
\* of the import() is a string literal or a template literal without
\* interpolation.
EverySpecifierFormRewritten ==
    Scanned =>
      \A k \in 1..Len(BeforeNodes) :
         isVisitedSpecifier(BeforeNodes[k]) =>
            AfterNodes[k].text = ExpectedText(BeforeNodes[k].text)

\* the same, for the specifiers that are string literals
EveryStringSpecifierRewritten ==
    Scanned =>
      \A k \in 1..Len(BeforeNodes) :
         isVisitedSpecifier(BeforeNodes[k]) /\ isStringLiteral(BeforeNodes[k]) =>
            AfterNodes[k].text = ExpectedText(BeforeNodes[k].text)

\* a pass returned every module specifier of a file as it was given: those of
\* import and export declarations and the arguments of dynamic import()
SpecifiersKeptIn(entry) ==
    \A k \in 1..Len(createSourceFile(entry.before)) :
       isVisitedSpecifier(createSourceFile(entry.before)[k]) =>
          createSourceFile(entry.text)[k].text = createSourceFile(entry.before)[k].text

\* C11: the propagation pass replaces no module specifier, neither that of an
\* import or export declaration nor the argument of a dynamic import(), even
\* when its text is a key of the stable map.
PropagationKeepsSpecifiers ==
    \A i \in 1..Len(postLog) : SpecifiersKeptIn(postLog[i])

\* the same, for the specifiers of import and export declarations only
PropagationKeepsDeclarations ==
    \A i \in 1..Len(postLog) :
       \A k \in 1..Len(createSourceFile(postLog[i].before)) :
          isImportExportModuleSpecifier(createSourceFile(postLog[i].before)[k]) =>
             createSourceFile(postLog[i].text)[k].text
                = createSourceFile(postLog[i].before)[k].text

\* the ranges of the edits are pairwise disjoint
NonOverlapping(edits) ==
    \A a, b \in DOMAIN edits :
       a # b => edits[a].end <= edits[b].start \/ edits[b].end <= edits[a].start

\* the text from offset from on, with every edit range at or after it replaced
\* by its replacement text, read from left to right
Spliced(text, edits, from) ==
    LET RECURSIVE go(_)
        go(at) ==
            IF \A k \in DOMAIN edits : edits[k].start < at
            THEN SubSeq(text, at + 1, Len(text))
            ELSE LET k == CHOOSE x \in DOMAIN edits :
                             /\ edits[x].start >= at
                             /\ \A y \in DOMAIN edits :
                                   edits[y].start >= at => edits[x].start <= edits[y].start
                 IN SubSeq(text, at + 1, edits[k].start) \o edits[k].text
                      \o go(edits[k].end)
    IN go(from)

\* every edit covers the text of one literal, between its delimiters
CoversLiterals(nodes, edits) ==
    \A k \in DOMAIN edits :
       /\ k = edits[k].start
       /\ \E j \in 1..Len(nodes) :
             edits[k].start = nodes[j].start + 1 /\ edits[k].end = nodes[j].end - 1

\* the literals of the text a pass returned sit in the constructs and between
\* the delimiters they had, and have the text of their edit, if any
LiteralsKept(before, after, edits) ==
    /\ Len(after) = Len(before)
    /\ \A j \in 1..Len(before) :
          /\ after[j].parent = before[j].parent
          /\ after[j].literal = before[j].literal
          /\ after[j].text = IF before[j].start + 1 \in DOMAIN edits
                             THEN edits[before[j].start + 1].text
                             ELSE before[j].text

\* what a pass returned for one file is the text it read with the edits made
\* at once
EditsAppliedIn(entry) ==
    /\ NonOverlapping(entry.edits)
    /\ CoversLiterals(createSourceFile(entry.before), entry.edits)
    /\ entry.text = Spliced(entry.before, entry.edits, 0)
    /\ LiteralsKept(createSourceFile(entry.before), createSourceFile(entry.text),
                    entry.edits)
    /\ entry.changed <=> DOMAIN entry.edits # {}

\* C12: in both passes the edits of a file cover pairwise disjoint ranges, each
\* the text of one literal, and the text returned is the text read with every
\* range replaced at once by its replacement: everything outside the ranges,
\* the delimiters of the rewritten literals included, is as it was and in the
\* same order.
EditsPreserveSurroundings ==
    /\ \A i \in 1..Len(scanLog) : EditsAppliedIn(scanLog[i])
    /\ \A i \in 1..Len(postLog) : EditsAppliedIn(postLog[i])

\* C12 witness: a pass made two edits in one file, the first of them changing
\* the length of the text
TwoEditsApplied ==
    \E i \in 1..Len(postLog) :
       \E a, b \in DOMAIN postLog[i].edits :
          /\ a < b
          /\ Len(postLog[i].edits[a].text) # postLog[i].edits[a].end - postLog[i].edits[a].start
          /\ postLog[i].text = Spliced(postLog[i].before, postLog[i].edits, 0)

\* C13: during one run, buildAliasMatchers is called at most once for every
\* configuration file, whether it returns matchers or null; the later files
\* the configuration governs are served from the cache.
ConfigurationBuiltOnce ==
    \A path \in DOMAIN built : built[path] <= 1

\* the same, for the configurations that buildAliasMatchers returns matchers for
MatchersBuiltOnce ==
    \A path \in DOMAIN built :
       tsconfigCache[path] # NullInfo => built[path] <= 1

\* a configuration with matchers governed two files and was built once
MatchersServedFromCache ==
    \E i, j \in 1..Len(scanLog) :
       /\ i < j
       /\ scanLog[i].tsconfigPath # None
       /\ scanLog[i].tsconfigPath = scanLog[j].tsconfigPath
       /\ scanLog[i].aliasInfo # NullInfo
       /\ built[scanLog[i].tsconfigPath] = 1

\* the number of wildcard markers of a pattern
Wildcards(pattern) == Cardinality({i \in 1..Len(pattern) : pattern[i] = "*"})

\* the (alias pattern, target pattern) pairs of a "paths" object in which both
\* patterns have at most one wildcard
SingleWildcardPairs(paths) ==
    {pair \in UNION {{<<i, k>> : k \in 1..Len(paths[i].targets)} : i \in 1..Len(paths)} :
        /\ Wildcards(paths[pair[1]].alias) <= 1
        /\ Wildcards(paths[pair[1]].targets[pair[2]]) <= 1}

\* the matchers are as many as the pairs with at most one wildcard in both
\* patterns, and no wildcard marker is left in the parts of a matcher
BuiltFromSingleWildcards(matchers, paths) ==
    /\ Len(matchers) = Cardinality(SingleWildcardPairs(paths))
    /\ \A i \in 1..Len(matchers) :
          /\ Wildcards(matchers[i].aliasPrefix \o matchers[i].aliasSuffix) = 0
          /\ Wildcards(matchers[i].targetSuffix) = 0

\* C14: no matcher is built from a pair of patterns one of which has more than
\* one wildcard; the matchers of a configuration are those of the pairs in
\* which both patterns have at most one.
MultiWildcardPatternsSkipped ==
    \A i \in 1..Len(scanLog) :
       scanLog[i].aliasInfo # NullInfo =>
          BuiltFromSingleWildcards(scanLog[i].aliasInfo.matchers,
                                   tsconfigs[Dirname(scanLog[i].tsconfigPath)].paths)

\* no specifier is rewritten to a text that holds a wildcard marker
NoWildcardInSpecifier ==
    \A i \in 1..Len(scanLog) :
       \A k \in 1..Len(scanLog[i].updatedPathPairs) :
          Wildcards(scanLog[i].updatedPathPairs[k][2]) = 0

\* what the wildcard of the matcher stands for in an alias the matcher gave
InnerOfAlias(alias, m) ==
    IF m.hasStar
    THEN SubSeq(alias, Len(m.aliasPrefix) + 1, Len(alias) - Len(m.aliasSuffix))
    ELSE <<>>

\* the path an alias denotes under a matcher: the physical prefix and suffix
\* in the place of the alias prefix and suffix
ExpandAlias(alias, m) ==
    PathResolve(m.targetPrefixAbs, InnerOfAlias(alias, m) \o m.targetSuffix)

\* the matcher applies to the target at a segment boundary only, without
\* wildcard to its own path only, and the alias it gives denotes the target
SoundFor(target, m, given) ==
    given # <<>> =>
       /\ target = m.targetPrefixAbs \/ StartsWith(target, m.targetPrefixAbs \o <<"/">>)
       /\ ~m.hasStar => target = m.targetPrefixAbs
       /\ stripExt(ExpandAlias(given[1], m)) = stripExt(target)

\* every matcher of the file is sound for the target of a relative specifier
SoundUnder(target, matchers) ==
    \A i \in 1..Len(matchers) :
       SoundFor(target, matchers[i], targetCandidates(target, <<matchers[i]>>, TRUE))

\* C15: every candidate alias that buildAliasForTarget derives from a matcher
\* for the target of a relative specifier denotes that target, up to a
\* stripped extension: the matcher applies only when the target is its
\* physical prefix or continues it at a segment boundary, and a matcher
\* without wildcard only when the target is its physical path.
AliasDenotesTarget ==
    \A i \in 1..Len(scanLog) :
       \A k \in 1..Len(scanLog[i].calls) :
          scanLog[i].calls[k].relative =>
             SoundUnder(PathResolve(Dirname(scanLog[i].file), scanLog[i].calls[k].spec),
                        scanLog[i].aliasInfo.matchers)

\* every relative specifier that was rewritten has an alias that some matcher
\* of the file expands to the target of the specifier
RewrittenAliasDenotesTarget ==
    \A i \in 1..Len(scanLog) :
       \A k \in 1..Len(scanLog[i].calls) :
          scanLog[i].calls[k].relative /\ scanLog[i].calls[k].edited =>
             \E j \in 1..Len(scanLog[i].aliasInfo.matchers) :
                /\ StartsWith(scanLog[i].calls[k].bestAlias,
                              scanLog[i].aliasInfo.matchers[j].aliasPrefix)
                /\ stripExt(ExpandAlias(scanLog[i].calls[k].bestAlias,
                                        scanLog[i].aliasInfo.matchers[j]))
                     = stripExt(PathResolve(Dirname(scanLog[i].file),
                                            scanLog[i].calls[k].spec))

\* pass 1 reads every file as it was before the run, with --write or without:
\* what it returns for a file does not depend on what was written before
FirstPassReadsOriginal ==
    \A i \in 1..Len(scanLog) : scanLog[i].before = original[scanLog[i].file]

\* the text the propagation pass reads for the i-th file in a run with --write
\* (what pass 1 returned) and in a run without (the file as it was)
TextReadWhen(write, i) ==
    IF write THEN scanLog[i].text ELSE original[SourceFiles[i]]

\* whether the propagation pass of a run with the given --write setting
\* reports the i-th file, for the stable map of this run
PostProcessedWhen(write, i) ==
    updateReferences(TextReadWhen(write, i), stableMap).changed

\* the propagation pass of this run and that of the run with the other
\* --write setting report the same files
SamePostProcessed(reported) ==
    \A i \in 1..NumFiles :
       /\ reported[i].changed = PostProcessedWhen(args.write, i)
       /\ reported[i].changed = PostProcessedWhen(~args.write, i)

\* C16: for the same tree, configuration and --update-refs setting, the run
\* without --write and the run with --write report the same files in the
\* first pass and the same files in the propagation pass.
DryRunFaithful ==
    /\ FirstPassReadsOriginal
    /\ pc = "done" /\ Len(postLog) = NumFiles => SamePostProcessed(postLog)

====
